---- MODULE Spec2Model ----
(***************************************************************************)
(* Model of src/src/scg_optimal_method.c (SCGlib, algorithm 5.8):           *)
(* igraph_i_optimal_partition and igraph_i_cost_matrix.                      *)
(*                                                                         *)
(* REAL quantities are held as exact rationals in lowest terms             *)
(* ([num, den], den > 0), so that the comparisons of the dynamic program   *)
(* are those of real arithmetic.  UINT quantities that can wrap are held   *)
(* as their 32-bit patterns (see USub).  Arrays keep the 0-based indices   *)
(* of the source: an array of length n is a function on 0..n-1.            *)
(***************************************************************************)
EXTENDS Integers, Sequences, FiniteSets, TLC

(* ---- bounds of the enumerated inputs ---- *)
MaxN == 4
MaxVal == 3

(* ---- program constants ---- *)
FIRST_GROUP_NB == 0
IGRAPH_EINVAL == "IGRAPH_EINVAL"
NoError == "none"
NULL == <<>>
\* content of an entry of the caller's gr that the call has not written
Unwritten == 0 - 1

VARIABLES v, n, nt, matrix, p, gr, vs, vsFreed, non_ties, ps, Cv, F, Q,
          j, col, part_ind, sumOfSquares, err, pc

vars == <<v, n, nt, matrix, p, gr, vs, vsFreed, non_ties, ps, Cv, F, Q,
          j, col, part_ind, sumOfSquares, err, pc>>

(***************************************************************************)
(* REAL arithmetic                                                         *)
(***************************************************************************)
Abs(x) == IF x < 0 THEN -x ELSE x

RECURSIVE GCD(_, _)
GCD(a, b) == IF b = 0 THEN a ELSE GCD(b, a % b)

Norm(nu, de) ==
    LET g == GCD(Abs(nu), de)
    IN  [num |-> nu \div g, den |-> de \div g]

RInt(x) == [num |-> x, den |-> 1]
RZero == RInt(0)
RAdd(a, b) == Norm(a.num * b.den + b.num * a.den, a.den * b.den)
RSub(a, b) == Norm(a.num * b.den - b.num * a.den, a.den * b.den)
RMul(a, b) == Norm(a.num * b.num, a.den * b.den)
RDiv(a, b) == IF b.num > 0 THEN Norm(a.num * b.den, a.den * b.num)
                           ELSE Norm(-(a.num * b.den), a.den * (-b.num))

\* a < b, by integer parts and then by the reciprocals of the fractional
\* parts, so that no cross product is formed
RECURSIVE RLess(_, _)
RLess(a, b) ==
    LET qa == a.num \div a.den
        qb == b.num \div b.den
        ra == a.num % a.den
        rb == b.num % b.den
    IN  IF qa # qb THEN qa < qb
        ELSE IF rb = 0 THEN FALSE
        ELSE IF ra = 0 THEN TRUE
        ELSE RLess([num |-> b.den, den |-> rb], [num |-> a.den, den |-> ra])

RLeq(a, b) == ~RLess(b, a)

RECURSIVE RSum(_, _)
\* sum of f[x] over x in S
RSum(f, S) ==
    IF S = {} THEN RZero
    ELSE LET x == CHOOSE y \in S : TRUE
         IN  RAdd(f[x], RSum(f, S \ {x}))

(***************************************************************************)
(* UINT arithmetic: a UINT is held as its 32-bit pattern, the patterns     *)
(* with the top bit set being the negative integers (UINT_MAX is -1).      *)
(***************************************************************************)
UINT_MAX == 0 - 1
USub(a, b) == a - b

(***************************************************************************)
(* Sorting (lines 49-56).  qsort orders vs by ascending val and leaves the *)
(* relative order of equal values unspecified: every ascending             *)
(* arrangement of the (val, ind) pairs is a possible outcome.              *)
(***************************************************************************)
Arr(s) == [i \in 0..(Len(s) - 1) |-> s[i + 1]]

MinVal(vv, S) == CHOOSE m \in {vv[x] : x \in S} : \A y \in S : m <= vv[y]

RECURSIVE SortedOrders(_, _)
\* the sequences of the indices in S, ascending by value
SortedOrders(vv, S) ==
    IF S = {} THEN {<<>>}
    ELSE LET m == MinVal(vv, S)
             C == {x \in S : vv[x] = m}
         IN  UNION {{<<x>> \o t : t \in SortedOrders(vv, S \ {x})} : x \in C}

QsortResults(vv, nn) ==
    {[i \in 0..(nn - 1) |-> [val |-> vv[o[i + 1]], ind |-> o[i + 1]]] :
        o \in SortedOrders(vv, 0..(nn - 1))}

\* variant: counts the elements, not the distinct values
CountElements(vsx, nn) == nn

\* lines 58-60
CountNonTies(vsx, nn) == 1 + Cardinality({i \in 1..(nn - 1) : vsx[i].val # vsx[i - 1].val})

(***************************************************************************)
(* igraph_i_cost_matrix (lines 151-195).  Cv is the upper triangle of a    *)
(* symmetric matrix, zero on allocation; only the cells i < j are set.     *)
(***************************************************************************)
Pairs(nn) == {c \in (0..(nn - 1)) \X (0..(nn - 1)) : c[1] <= c[2]}

SymGet(C, a, b) == IF a <= b THEN C[<<a, b>>] ELSE C[<<b, a>>]

\* lines 156-165: the prefix sums w and w2 (w[0] = w2[0] = 0 on allocation)
RECURSIVE PrefixSum(_, _, _)
PrefixSum(vsx, i, sq) ==
    IF i = 0 THEN RZero
    ELSE RAdd(PrefixSum(vsx, i - 1, sq),
              IF sq THEN RInt(vsx[i - 1].val * vsx[i - 1].val) ELSE RInt(vsx[i - 1].val))

\* variant: the two terms of line 170 the other way round
DeviationCostSwapped(vsx, i, jj) ==
    LET w1 == RSub(PrefixSum(vsx, jj + 1, FALSE), PrefixSum(vsx, i, FALSE))
        w2 == RSub(PrefixSum(vsx, jj + 1, TRUE), PrefixSum(vsx, i, TRUE))
    IN  RSub(RDiv(RMul(w1, w1), RInt(jj - i + 1)), w2)

\* lines 169-170
DeviationCost(vsx, i, jj) ==
    LET w1 == RSub(PrefixSum(vsx, jj + 1, FALSE), PrefixSum(vsx, i, FALSE))
        w2 == RSub(PrefixSum(vsx, jj + 1, TRUE), PrefixSum(vsx, i, TRUE))
    IN  RSub(w2, RDiv(RMul(w1, w1), RInt(jj - i + 1)))

\* lines 182-185 and 188: the positions k the two inner loops visit
StochasticRange(i, jj) == i..(jj - 1)

\* lines 181-190
StochasticCost(vsx, psx, i, jj) ==
    LET K == StochasticRange(i, jj)
        t1 == RSum(psx, K)
        t2 == RSum([k \in K |-> RMul(psx[k], RInt(vsx[k].val))], K)
        m == RDiv(t2, t1)
    IN  RSum([k \in K |-> RMul(RSub(RInt(vsx[k].val), m), RSub(RInt(vsx[k].val), m))], K)

CostMatrix(vsx, nn, mat, psx) ==
    [c \in Pairs(nn) |->
        IF c[1] = c[2] THEN RZero
        ELSE IF mat = 1 \/ mat = 2 THEN DeviationCost(vsx, c[1], c[2])
        ELSE IF mat = 3 THEN StochasticCost(vsx, psx, c[1], c[2])
        ELSE RZero]

(***************************************************************************)
(* The tables F and Q (lines 90-112), zero on allocation.                  *)
(***************************************************************************)
\* variant: the comparison of line 107 turned around
ImprovesReversed(temp, best) == RLess(best, temp)

\* variant: the comparison of line 107 not strict, a later tie overwrites
ImprovesOrTies(temp, best) == RLeq(temp, best)

\* line 107
Improves(temp, best) == RLess(temp, best)

RECURSIVE ScanQStoresSplit(_, _, _, _, _, _)
\* variant: line 109 stores q itself, without the offset line 126 takes off
ScanQStoresSplit(Fprev, C, jj, q, cur, last) ==
    IF q > last THEN cur
    ELSE LET temp == RAdd(Fprev[q], SymGet(C, q + 1, jj))
         IN  IF Improves(temp, cur.F)
             THEN ScanQStoresSplit(Fprev, C, jj, q + 1, [F |-> temp, Q |-> q], last)
             ELSE ScanQStoresSplit(Fprev, C, jj, q + 1, cur, last)

RECURSIVE ScanQ(_, _, _, _, _, _)
\* lines 105-111: the scan of q from its current value to j-1;
\* cur is the pair (F[i][j], Q[i][j]) so far
ScanQ(Fprev, C, jj, q, cur, last) ==
    IF q > last THEN cur
    ELSE LET temp == RAdd(Fprev[q], SymGet(C, q + 1, jj))
         IN  IF Improves(temp, cur.F)
             THEN ScanQ(Fprev, C, jj, q + 1, [F |-> temp, Q |-> q + 2], last)
             ELSE ScanQ(Fprev, C, jj, q + 1, cur, last)

\* lines 102-111
FillCell(Fprev, C, i, jj) ==
    ScanQ(Fprev, C, jj, i - 1,
          [F |-> RAdd(Fprev[i - 1], SymGet(C, i, jj)), Q |-> 2], jj - 1)

RECURSIVE FRow(_, _, _)
\* row i of F
FRow(C, nn, i) ==
    IF i = 0 THEN [c \in 0..(nn - 1) |-> SymGet(C, 0, c)]
    ELSE LET Fprev == FRow(C, nn, i - 1)
         IN  [c \in 0..(nn - 1) |->
                 IF c > i THEN FillCell(Fprev, C, i, c).F ELSE RZero]

\* row i of Q: lines 94, 95 and 103-109
QRow(C, nn, i) ==
    IF i = 0 THEN [c \in 0..(nn - 1) |-> 1]
    ELSE LET Fprev == FRow(C, nn, i - 1)
         IN  [c \in 0..(nn - 1) |->
                 IF c = i THEN i + 1
                 ELSE IF c > i THEN FillCell(Fprev, C, i, c).Q ELSE 0]

FTable(C, nn, k) == [i \in 0..(k - 1) |-> FRow(C, nn, i)]
QTable(C, nn, k) == [i \in 0..(k - 1) |-> QRow(C, nn, i)]

(***************************************************************************)
(* The calls: n > nt >= 1, the values small naturals, the weights of the   *)
(* stochastic kernel a probability vector.                                 *)
(***************************************************************************)
Prob(w, nn) ==
    LET tot == RSum([i \in 0..(nn - 1) |-> RInt(w[i])], 0..(nn - 1))
    IN  [i \in 0..(nn - 1) |-> RDiv(RInt(w[i]), tot)]

\* uniform weights, or one element twice as likely as each of the others
WeightVectors(nn) ==
    {Prob([i \in 0..(nn - 1) |-> IF i = h THEN 2 ELSE 1], nn) : h \in (0 - 1)..(nn - 1)}

Call(vv, nn, k, mat, pp) == [v |-> vv, n |-> nn, nt |-> k, matrix |-> mat, p |-> pp]

ValueArrays(nn) == [0..(nn - 1) -> 0..MaxVal]

\* the arrays already in ascending order: the order of the input reaches the
\* code only through vs[i].ind, and every order of the ties is a result of Sort
AscendingArrays(nn) == {vv \in ValueArrays(nn) : \A i \in 1..(nn - 1) : vv[i - 1] <= vv[i]}

\* matrix = 1 on every array; matrix = 2, which line 154 treats as 1, and
\* matrix = 3 on the ascending arrays
BoundedCalls ==
    UNION {
        {Call(vv, nn, k, 1, NULL) : vv \in ValueArrays(nn), k \in 1..(nn - 1)}
        \cup
        {Call(vv, nn, k, 2, NULL) : vv \in AscendingArrays(nn), k \in 1..(nn - 1)}
        \cup
        {Call(vv, nn, k, 3, pp) :
            vv \in AscendingArrays(nn), k \in 1..(nn - 1), pp \in WeightVectors(nn)}
        : nn \in 2..MaxN}

\* the scenario of the specification's section 8
ScenarioValues == Arr(<<5, 1, 3, 2, 4>>)
\* a stochastic call with two heavy elements around four light ones
HeavyEndsValues == Arr(<<0, 1, 1, 1, 1, 2, 2>>)
HeavyEndsWeights == Prob(Arr(<<18, 2, 1, 1, 2, 18, 1>>), 7)

ScenarioCalls ==
    {Call(ScenarioValues, 5, 2, mat, NULL) : mat \in {1, 2}}
    \cup {Call(HeavyEndsValues, 7, k, 3, HeavyEndsWeights) : k \in {1, 2}}

Calls == BoundedCalls \cup ScenarioCalls

Init ==
    /\ \E c \in Calls :
        /\ v = c.v
        /\ n = c.n
        /\ nt = c.nt
        /\ matrix = c.matrix
        /\ p = c.p
    /\ gr = [x \in 0..(n - 1) |-> Unwritten]
    /\ vs = NULL
    /\ vsFreed = FALSE
    /\ non_ties = 0
    /\ ps = NULL
    /\ Cv = NULL
    /\ F = NULL
    /\ Q = NULL
    /\ j = 0
    /\ col = 0
    /\ part_ind = 0
    /\ sumOfSquares = RZero
    /\ err = NoError
    /\ pc = "sort"

(***************************************************************************)
(* igraph_i_optimal_partition, step by step                                *)
(***************************************************************************)
\* lines 49-56
Sort ==
    /\ pc = "sort"
    /\ vs' \in QsortResults(v, n)
    /\ pc' = "count"
    /\ UNCHANGED <<v, n, nt, matrix, p, gr, vsFreed, non_ties, ps, Cv, F, Q,
                   j, col, part_ind, sumOfSquares, err>>

\* lines 58-66: the count of the distinct values and the test of nt; on
\* failure vs is freed and igraph_error is called
Validate ==
    /\ pc = "count"
    /\ non_ties' = CountNonTies(vs, n)
    /\ IF nt >= non_ties'
       THEN /\ vsFreed' = TRUE
            /\ err' = IGRAPH_EINVAL
            /\ pc' = "error"
       ELSE /\ UNCHANGED <<vsFreed, err>>
            /\ pc' = "weights"
    /\ UNCHANGED <<v, n, nt, matrix, p, gr, vs, ps, Cv, F, Q,
                   j, col, part_ind, sumOfSquares>>

\* line 64: the installed error handler ends the program (the default
\* handler aborts, others leave by a non-local jump)
HandlerAborts ==
    /\ pc = "error"
    /\ pc' = "aborted"
    /\ UNCHANGED <<v, n, nt, matrix, p, gr, vs, vsFreed, non_ties, ps, Cv, F, Q,
                   j, col, part_ind, sumOfSquares, err>>

\* lines 64-68: the installed error handler returns; no return statement
\* follows the call of igraph_error, and control falls through to line 69
\* with vs freed (a later read of vs finds its old contents, or faults)
HandlerReturns ==
    /\ pc = "error"
    /\ pc' = "weights"
    /\ UNCHANGED <<v, n, nt, matrix, p, gr, vs, vsFreed, non_ties, ps, Cv, F, Q,
                   j, col, part_ind, sumOfSquares, err>>

\* lines 69-74
PermuteWeights ==
    /\ pc = "weights"
    /\ ps' = IF matrix = 3 THEN [i \in 0..(n - 1) |-> p[vs[i].ind]] ELSE NULL
    /\ pc' = "cost"
    /\ UNCHANGED <<v, n, nt, matrix, p, gr, vs, vsFreed, non_ties, Cv, F, Q,
                   j, col, part_ind, sumOfSquares, err>>

\* lines 78-81
ComputeCostMatrix ==
    /\ pc = "cost"
    /\ Cv' = CostMatrix(vs, n, matrix, ps)
    /\ ps' = NULL
    /\ pc' = "tables"
    /\ UNCHANGED <<v, n, nt, matrix, p, gr, vs, vsFreed, non_ties, F, Q,
                   j, col, part_ind, sumOfSquares, err>>

\* lines 85-119 and the initialisation of the loop of line 122
FillTables ==
    /\ pc = "tables"
    /\ F' = FTable(Cv, n, nt)
    /\ Q' = QTable(Cv, n, nt)
    /\ Cv' = NULL
    /\ part_ind' = nt
    /\ col' = n - 1
    /\ j' = nt - 1
    /\ pc' = "backtrack"
    /\ UNCHANGED <<v, n, nt, matrix, p, gr, vs, vsFreed, non_ties, ps,
                   sumOfSquares, err>>

\* variant: the loop of line 123 starts at the choice itself
LabelRangeFromChoice(qv, c) == IF qv >= 0 /\ c >= 0 THEN qv..c ELSE {}

\* line 123: the values of i for which i <= col holds, i starting at qv - 1
\* (a start wrapped below zero is above every column)
LabelRange(qv, c) == IF qv >= 1 /\ c >= 0 THEN (qv - 1)..c ELSE {}

\* lines 123-124
LabelGroup(g, vsx, R, label) ==
    [x \in DOMAIN g |-> IF \E i \in R : vsx[i].ind = x THEN label ELSE g[x]]

\* variant: the loop of lines 131-132 left out
LabelSingletonsSkipped(g, vsx, row) == g

\* lines 131-132
LabelSingletons(g, vsx, row) ==
    [x \in DOMAIN g |->
        IF \E l \in 0..(row - 1) : vsx[l].ind = x
        THEN (CHOOSE l \in 0..(row - 1) : vsx[l].ind = x) + FIRST_GROUP_NB
        ELSE g[x]]

\* variant: the test of line 130 taken the other way
UnpacksPrefixLowRows(row) == row <= 1

\* line 130: the test that sends a choice of 2 to the loop of lines 131-133
UnpacksPrefix(row) == row > 1

\* every index one iteration of the loop of line 122 uses lies in its array
BacktrackInBounds ==
    /\ j \in 0..(nt - 1)
    /\ col \in 0..(n - 1)
    /\ \A i \in LabelRange(Q[j][col], col) : i \in 0..(n - 1) /\ vs[i].ind \in 0..(n - 1)
    /\ (Q[j][col] = 2 /\ UnpacksPrefix(j)) => j - 1 <= n - 1

\* lines 122-140: one iteration of the loop
BacktrackStep ==
    /\ pc = "backtrack"
    /\ BacktrackInBounds
    /\ LET qv == Q[j][col]
           gr1 == LabelGroup(gr, vs, LabelRange(qv, col), part_ind - 1 + FIRST_GROUP_NB)
       IN  IF qv # 2 \/ ~UnpacksPrefix(j)
           THEN /\ gr' = gr1
                /\ col' = USub(qv, 2)
                /\ part_ind' = part_ind - 1
                /\ j' = j - 1
                /\ pc' = IF j - 1 >= 0 THEN "backtrack" ELSE "return"
           ELSE /\ gr' = LabelSingletons(gr1, vs, j)
                /\ pc' = "return"
                /\ UNCHANGED <<col, part_ind, j>>
    /\ UNCHANGED <<v, n, nt, matrix, p, vs, vsFreed, non_ties, ps, Cv, F, Q,
                   sumOfSquares, err>>

\* lines 142-148
Return ==
    /\ pc = "return"
    /\ sumOfSquares' = F[nt - 1][n - 1]
    /\ F' = NULL
    /\ Q' = NULL
    /\ vsFreed' = TRUE
    /\ pc' = "done"
    /\ UNCHANGED <<v, n, nt, matrix, p, gr, vs, non_ties, ps, Cv,
                   j, col, part_ind, err>>

\* a read of the freed vs (lines 73, 159-189, 124) or an index outside its
\* array ends the run
Fault ==
    /\ \/ pc \in {"weights", "cost", "backtrack"} /\ vsFreed
       \/ pc = "backtrack" /\ ~BacktrackInBounds
    /\ pc' = "fault"
    /\ UNCHANGED <<v, n, nt, matrix, p, gr, vs, vsFreed, non_ties, ps, Cv, F, Q,
                   j, col, part_ind, sumOfSquares, err>>

Next ==
    \/ Sort
    \/ Validate
    \/ HandlerAborts
    \/ HandlerReturns
    \/ PermuteWeights
    \/ ComputeCostMatrix
    \/ FillTables
    \/ BacktrackStep
    \/ Return
    \/ Fault

Spec == Init /\ [][Next]_vars

\* the call passed the test of line 62
Valid == err = NoError

(***************************************************************************)
(* Reference quantities, computed from the values alone                    *)
(***************************************************************************)
ValidDeviationCall == Valid /\ matrix \in {1, 2}

\* the label of sorted position i
LabelAt(i) == gr[vs[i].ind]

Labels == FIRST_GROUP_NB..(FIRST_GROUP_NB + nt - 1)

\* sum over the positions K of the squared deviation from the mean of K
SquaredDeviation(val, K) ==
    IF K = {} THEN RZero
    ELSE LET mean == RDiv(RSum([k \in K |-> RInt(val[k])], K), RInt(Cardinality(K)))
         IN  RSum([k \in K |-> RMul(RSub(RInt(val[k]), mean), RSub(RInt(val[k]), mean))], K)

\* sum of squares minus (sum)^2 / count over the positions K
SumSquaresForm(val, K) ==
    IF K = {} THEN RZero
    ELSE LET sm == RSum([k \in K |-> RInt(val[k])], K)
             sq == RSum([k \in K |-> RInt(val[k] * val[k])], K)
         IN  RSub(sq, RDiv(RMul(sm, sm), RInt(Cardinality(K))))

SortedVal == [i \in 0..(n - 1) |-> vs[i].val]

\* the cuts of sorted positions 0..jj into g+1 contiguous non-empty groups:
\* a cut is the set of the last positions of all groups but the final one
Cuts(jj, g) == {c \in SUBSET (0..(jj - 1)) : Cardinality(c) = g}

\* the groups of a cut, each as the interval of its positions
GroupsOf(c, jj) ==
    LET ends == c \cup {jj}
    IN  {LET below == {d \in ends : d < e}
             lo == IF below = {} THEN 0
                   ELSE 1 + (CHOOSE d \in below : \A d2 \in below : d2 <= d)
         IN  lo..e : e \in ends}

CutCost(c, jj) ==
    LET gs == GroupsOf(c, jj)
    IN  RSum([K \in gs |-> SquaredDeviation(SortedVal, K)], gs)

MinCutCost(jj, g) ==
    LET costs == {CutCost(c, jj) : c \in Cuts(jj, g)}
    IN  CHOOSE m \in costs : \A x \in costs : RLeq(m, x)

\* the cost of the labeling gr, group by group
LabelingCost ==
    RSum([L \in Labels |-> SumSquaresForm(v, {x \in 0..(n - 1) : gr[x] = L})], Labels)

\* the weights in sorted order (line 73)
SortedWeights == [i \in 0..(n - 1) |-> p[vs[i].ind]]

\* the cost the code returns for k groups on the sorted sequence at hand
CostFor(k) ==
    LET C == CostMatrix(vs, n, matrix, IF matrix = 3 THEN SortedWeights ELSE NULL)
    IN  FRow(C, n, k - 1)[n - 1]

(***************************************************************************)
(* C1: on return of a valid call every entry of gr holds a label of        *)
(* FIRST_GROUP_NB .. FIRST_GROUP_NB+nt-1, each of the nt labels is used,   *)
(* and the labels read along the sorted order form exactly nt non-empty    *)
(* contiguous blocks whose labels strictly increase.                       *)
(***************************************************************************)
C1_LabelingIsPartition ==
    (pc = "done" /\ Valid) =>
        /\ \A x \in 0..(n - 1) : gr[x] \in Labels
        /\ \A L \in Labels : \E x \in 0..(n - 1) : gr[x] = L
        /\ \A i \in 0..(n - 2) : LabelAt(i) <= LabelAt(i + 1)
        /\ Cardinality({i \in 0..(n - 1) : i = 0 \/ LabelAt(i) # LabelAt(i - 1)}) = nt

C1_Witness ==
    /\ pc = "done" /\ Valid
    /\ nt = 3
    /\ \E x \in 0..(n - 1) : \E y \in 0..(n - 1) : x # y /\ gr[x] = gr[y]

(***************************************************************************)
(* C2: under the deviation kernel every cell F[g][jj] with g <= jj of a    *)
(* valid call is the least cost of cutting sorted positions 0..jj into     *)
(* g+1 contiguous non-empty groups, and the returned cost is the least     *)
(* cost of cutting the whole sequence into nt groups.                      *)
(***************************************************************************)
C2_TableIsMinimum ==
    /\ (pc \in {"backtrack", "return"} /\ ValidDeviationCall) =>
            \A g \in 0..(nt - 1) : \A jj \in g..(n - 1) : F[g][jj] = MinCutCost(jj, g)
    /\ (pc = "done" /\ ValidDeviationCall) => sumOfSquares = MinCutCost(n - 1, nt - 1)

C2_Witness ==
    /\ pc = "done" /\ ValidDeviationCall
    /\ nt = 3
    /\ sumOfSquares = MinCutCost(n - 1, nt - 1)
    /\ RLess(RZero, sumOfSquares)

(***************************************************************************)
(* C3: under the deviation kernel the cost returned by a valid call is     *)
(* the cost of the returned labeling: the sum over the labels of (sum of   *)
(* squares - (sum)^2 / count) of the values carrying the label.            *)
(***************************************************************************)
C3_CostOfLabeling ==
    (pc = "done" /\ ValidDeviationCall) => sumOfSquares = LabelingCost

C3_Witness ==
    /\ pc = "done" /\ ValidDeviationCall
    /\ nt >= 2
    /\ RLess(RZero, sumOfSquares)
    /\ sumOfSquares = LabelingCost

(***************************************************************************)
(* C4: when nt is at least the number of distinct values the call raises   *)
(* IGRAPH_EINVAL, does nothing further (no cost matrix and no table is     *)
(* built, the freed vs is not read) and leaves gr as the caller gave it.   *)
(***************************************************************************)
C4_FailsWithoutFurtherWork ==
    (err = IGRAPH_EINVAL) =>
        /\ pc \in {"error", "aborted"}
        /\ Cv = NULL /\ F = NULL /\ Q = NULL
        /\ \A x \in 0..(n - 1) : gr[x] = Unwritten

(***************************************************************************)
(* C5 as stated: for every kernel, the cost returned for nt groups is at   *)
(* most the cost returned for any smaller valid group count.               *)
(***************************************************************************)
C5_MonotoneEveryKernel ==
    (pc = "done" /\ Valid) => \A k1 \in 1..(nt - 1) : RLeq(sumOfSquares, CostFor(k1))

(***************************************************************************)
(* C5, amended: under the deviation kernel (matrix = 1 or 2), the cost     *)
(* returned for nt groups is at most the cost returned for any smaller     *)
(* valid group count on the same values.                                   *)
(***************************************************************************)
C5_MonotoneDeviation ==
    (pc = "done" /\ ValidDeviationCall) =>
        \A k1 \in 1..(nt - 1) : RLeq(sumOfSquares, CostFor(k1))

C5_Witness ==
    /\ pc = "done" /\ ValidDeviationCall
    /\ nt = 3
    /\ RLess(sumOfSquares, CostFor(2))
    /\ RLess(CostFor(2), CostFor(1))

\* the split a choice stands for: 2 is the seed of line 102, the split g-1
RetainedSplit(g, jj) == IF Q[g][jj] = 2 THEN g - 1 ELSE Q[g][jj] - 2

Candidate(C, g, jj, q) == RAdd(F[g - 1][q], SymGet(C, q + 1, jj))

(***************************************************************************)
(* C6: for every row g >= 1 and column jj > g the split retained for       *)
(* F[g][jj] is the smallest q of g-1..jj-1 whose candidate                 *)
(* F[g-1][q] + Cv[q+1, jj] is the minimum; and the values [5,1,3,2,4] with *)
(* nt = 2 under the deviation kernel return 2.5 with gr[1] = gr[3] = 0 and *)
(* gr[2] = gr[4] = gr[0] = 1.                                              *)
(***************************************************************************)
C6_EarliestSplitRetained ==
    /\ (pc \in {"backtrack", "return"} /\ Valid) =>
            LET C == CostMatrix(vs, n, matrix, IF matrix = 3 THEN SortedWeights ELSE NULL)
            IN  \A g \in 1..(nt - 1) : \A jj \in (g + 1)..(n - 1) :
                    LET qr == RetainedSplit(g, jj)
                    IN  /\ qr \in (g - 1)..(jj - 1)
                        /\ F[g][jj] = Candidate(C, g, jj, qr)
                        /\ \A q \in (g - 1)..(jj - 1) :
                              /\ RLeq(F[g][jj], Candidate(C, g, jj, q))
                              /\ q < qr => RLess(F[g][jj], Candidate(C, g, jj, q))
    /\ (pc = "done" /\ v = ScenarioValues /\ nt = 2 /\ matrix \in {1, 2}) =>
            /\ sumOfSquares = [num |-> 5, den |-> 2]
            /\ gr = Arr(<<1, 0, 1, 0, 1>>)

\* a later split ties with the retained one
C6_Witness ==
    /\ pc = "return" /\ ValidDeviationCall
    /\ v = ScenarioValues
    /\ LET C == CostMatrix(vs, n, matrix, NULL)
       IN  \E q \in 0..3 : /\ q > RetainedSplit(1, 4)
                           /\ Candidate(C, 1, 4, q) = F[1][4]

WeightedDeviation(K) ==
    LET w == SortedWeights
        m == RDiv(RSum([k \in K |-> RMul(w[k], RInt(vs[k].val))], K), RSum(w, K))
    IN  RSum([k \in K |-> RMul(RSub(RInt(vs[k].val), m), RSub(RInt(vs[k].val), m))], K)

(***************************************************************************)
(* C7: under the stochastic kernel (matrix = 3) every cell Cv[i][jj],      *)
(* i < jj, is the sum over the positions i..jj (both ends included) of     *)
(* (value - m)^2, m the weighted mean of the values of those positions;    *)
(* so an interval of two distinct values has a positive cost.              *)
(***************************************************************************)
C7_StochasticCostInclusive ==
    (pc = "tables" /\ Valid /\ matrix = 3) =>
        \A c \in Pairs(n) : c[1] < c[2] => Cv[c] = WeightedDeviation(c[1]..c[2])

(***************************************************************************)
(* C8 as stated: a choice of 2 at a row > 1 is a normal split at q = 0     *)
(* (col becomes 0, the row and the group index go down by one, the walk    *)
(* goes on); the prefix is unpacked into singletons, ending the walk, only *)
(* for a choice of 2 at a row <= 1.                                        *)
(***************************************************************************)
C8_UnpackAtLowRows ==
    [][(pc = "backtrack" /\ Valid) =>
          /\ (Q[j][col] = 2 /\ j > 1) =>
                /\ \A i \in 1..col : gr'[vs[i].ind] = part_ind - 1 + FIRST_GROUP_NB
                /\ col' = 0 /\ j' = j - 1 /\ part_ind' = part_ind - 1
                /\ pc' = "backtrack"
          \* the walk ends by the break of line 133 only at a row <= 1
          /\ (pc' = "return" /\ j' = j) => (Q[j][col] = 2 /\ j <= 1)]_vars

(***************************************************************************)
(* C8, amended: a choice of 2 at a row > 1 labels the positions row..col   *)
(* with the current group, unpacks the prefix 0..row-1 into row singleton  *)
(* groups and ends the walk; a choice of 2 at a row <= 1 is a normal split *)
(* at q = 0 (positions 1..col get the current group, col becomes 0, the    *)
(* row and the group index go down by one) and the walk goes on.           *)
(***************************************************************************)
C8_UnpackAtHighRows ==
    [][(pc = "backtrack" /\ Valid /\ Q[j][col] = 2) =>
          IF j > 1
          THEN /\ pc' = "return"
               /\ \A l \in 0..(j - 1) : gr'[vs[l].ind] = l + FIRST_GROUP_NB
               /\ \A i \in j..col : gr'[vs[i].ind] = part_ind - 1 + FIRST_GROUP_NB
          ELSE /\ \A i \in 1..col : gr'[vs[i].ind] = part_ind - 1 + FIRST_GROUP_NB
               /\ col' = 0 /\ j' = j - 1 /\ part_ind' = part_ind - 1
               /\ pc' = "backtrack"]_vars

\* the walk has just unpacked a prefix at a row > 1
C8_Witness ==
    /\ pc = "return" /\ Valid
    /\ j > 1
    /\ Q[j][col] = 2
    /\ \A l \in 0..(j - 1) : LabelAt(l) = l + FIRST_GROUP_NB

(***************************************************************************)
(* C9: in a valid call every iteration of the backtracking loop starts     *)
(* with row <= col <= n-1 and uses only indices inside Q, vs and gr; and   *)
(* col = Q[row][col] - 2 wraps below zero only in the iteration of row 0,  *)
(* after which col is not used.                                            *)
(***************************************************************************)
C9_BacktrackIndexSafety ==
    Valid =>
        /\ pc = "backtrack" =>
              /\ 0 <= j /\ j <= col /\ col <= n - 1
              /\ Q[j][col] >= 1
              /\ BacktrackInBounds
        /\ pc \in {"backtrack", "return", "done"} =>
              /\ col \in 0..(n - 1) \/ col = UINT_MAX
              /\ col = UINT_MAX => (j = 0 - 1 /\ pc \in {"return", "done"})
        /\ pc # "fault"

\* the walk has gone through row 0 and col has wrapped
C9_Witness ==
    /\ pc = "return" /\ Valid
    /\ nt >= 2
    /\ col = UINT_MAX
    /\ j = 0 - 1

(***************************************************************************)
(* C10: under the deviation kernel, in a valid call and whatever order the *)
(* sort gave to equal values, two input positions of equal value get the   *)
(* same label.                                                             *)
(***************************************************************************)
C10_EqualValuesTogether ==
    (pc = "done" /\ ValidDeviationCall) =>
        \A x \in 0..(n - 1) : \A y \in 0..(n - 1) : v[x] = v[y] => gr[x] = gr[y]

\* equal values, sorted against their input order, in a call with a choice
C10_Witness ==
    /\ pc = "done" /\ ValidDeviationCall
    /\ nt >= 2
    /\ \E i \in 0..(n - 2) :
          /\ vs[i].val = vs[i + 1].val
          /\ vs[i].ind > vs[i + 1].ind
          /\ gr[vs[i].ind] = gr[vs[i + 1].ind]

====
